---- MODULE Spec2Model ----
(***************************************************************************)
(* The zk.work pool protocol codec (src/src/message/poolmessage.rs):       *)
(* the two message enums PoolMessageSC / PoolMessageCS, their byte         *)
(* layouts, the length-prefixed tokio Encoder / Decoder, and the Data      *)
(* container for deferred payloads.                                        *)
(*                                                                         *)
(* Bytes are integers 0..255, buffers and Strings are sequences of bytes   *)
(* (a Rust String is its UTF-8 bytes).  Option<T> is <<>> (None) or <<v>>  *)
(* (Some(v)).  All integers of the inputs stay below 2^31.                 *)
(***************************************************************************)
EXTENDS Integers, Sequences, FiniteSets, TLC

(***************************************************************************)
(* Program constants                                                       *)
(***************************************************************************)
MAXIMUM_MESSAGE_SIZE == 512

\* data[1..=32]: the bincode form of an Address is 32 bytes
ADDRESS_SIZE == 32

\* u8 arithmetic of `6 + data[5]` and of `custom_name.len() as u8`
U8_MODULUS == 256

(***************************************************************************)
(* Bounds of the model                                                     *)
(***************************************************************************)
\* number of encode calls and injected chunks in one behaviour
MaxFrames == 2

(***************************************************************************)
(* Byte helpers                                                            *)
(***************************************************************************)
None == <<>>
Some(v) == <<v>>

Rep(b, n) == [i \in 1..n |-> b]

\* &s[from..] on a 0-based Rust slice, as a 1-based sequence
Drop(s, n) == SubSeq(s, n + 1, Len(s))
Take(s, n) == SubSeq(s, 1, n)

\* u32::to_le_bytes / bincode fixint little-endian encoding of an n-byte integer
RECURSIVE to_le_bytes(_, _)
to_le_bytes(v, n) ==
    IF n = 0 THEN <<>> ELSE <<v % U8_MODULUS>> \o to_le_bytes(v \div U8_MODULUS, n - 1)

\* u32::from_le_bytes / bincode fixint little-endian decoding
RECURSIVE from_le_bytes(_)
from_le_bytes(b) ==
    IF b = <<>> THEN 0 ELSE Head(b) + U8_MODULUS * from_le_bytes(Tail(b))

\* String::from_utf8: the well-formedness test of the standard library.
\* Every byte that is no continuation byte starts a sequence of the length its
\* value tells, followed by that many continuation bytes (the second one in
\* the narrower range for E0, ED, F0, F4), and every continuation byte
\* belongs to the sequence of the lead byte before it.
IsCont(c) == c \in 128..191

Utf8Width(c) ==
    IF c < 128 THEN 1
    ELSE IF c \in 194..223 THEN 2
    ELSE IF c \in 224..239 THEN 3
    ELSE IF c \in 240..244 THEN 4
    ELSE 0

Utf8Second(c) ==
    CASE c = 224 -> 160..191
      [] c = 237 -> 128..159
      [] c = 240 -> 144..191
      [] c = 244 -> 128..143
      [] OTHER -> 128..191

Utf8LeadOk(b, i) ==
    LET w == Utf8Width(b[i]) IN
    /\ w > 0
    /\ i + w - 1 <= Len(b)
    /\ w >= 2 => b[i + 1] \in Utf8Second(b[i])
    /\ \A j \in (i + 2)..(i + w - 1) : IsCont(b[j])

Utf8ContOk(b, i) ==
    \E j \in 1..3 : i - j >= 1 /\ ~IsCont(b[i - j]) /\ Utf8Width(b[i - j]) > j

from_utf8_ok(b) ==
    \A i \in 1..Len(b) : IF IsCont(b[i]) THEN Utf8ContOk(b, i) ELSE Utf8LeadOk(b, i)

(***************************************************************************)
(* The byte codecs of the domain objects (snarkvm): every object has one   *)
(* canonical byte form, and bytes that are no object's form are rejected.  *)
(***************************************************************************)
Addresses == {1, 2}
Address_to_bytes(a) == <<a>> \o Rep(0, ADDRESS_SIZE - 2) \o <<1>>

EpochChallenges == {1, 2}
\* epoch_number: u32, epoch_block_hash: 32 bytes, degree: u32
EpochChallenge_to_bytes_le(e) == to_le_bytes(e, 4) \o Rep(e, 32) \o to_le_bytes(8191, 4)
EpochChallengeSize == 4 + 32 + 4

ProverSolutions == {1, 2}
ProverSolution_to_bytes_le(x) == <<200 + x, x, 7>>

Ok(v) == [kind |-> "Ok", val |-> v]
Err(e) == [kind |-> "Err", val |-> e]
Panic(e) == [kind |-> "Panic", val |-> e]

\* bincode::deserialize::<Address<N>>(&data[1..=32])
Address_from_bytes(b) ==
    IF \E a \in Addresses : Address_to_bytes(a) = b
    THEN Ok(CHOOSE a \in Addresses : Address_to_bytes(a) = b)
    ELSE Err("address")

\* EpochChallenge::read_le(reader): reads 40 bytes, ignores what follows
EpochChallenge_read_le(b) ==
    IF Len(b) < EpochChallengeSize THEN Err("epoch challenge: unexpected eof")
    ELSE IF \E e \in EpochChallenges : EpochChallenge_to_bytes_le(e) = Take(b, EpochChallengeSize)
         THEN Ok(CHOOSE e \in EpochChallenges :
                     EpochChallenge_to_bytes_le(e) = Take(b, EpochChallengeSize))
         ELSE Err("epoch challenge")

\* T::from_bytes_le(&bytes) for T = ProverSolution<N>
ProverSolution_from_bytes_le(b) ==
    IF \E x \in ProverSolutions : ProverSolution_to_bytes_le(x) = b
    THEN Ok(CHOOSE x \in ProverSolutions : ProverSolution_to_bytes_le(x) = b)
    ELSE Err("prover solution")

(***************************************************************************)
(* Data<T>                                                                 *)
(***************************************************************************)
Object(x) == [tag |-> "Object", x |-> x]
Buffer(b) == [tag |-> "Buffer", bytes |-> b]

\* the bug of writing a raw buffer as a byte vector, behind its length
Data_serialize_blocking_into_vec(d) ==
    IF d.tag = "Object" THEN ProverSolution_to_bytes_le(d.x)
    ELSE to_le_bytes(Len(d.bytes), 8) \o d.bytes

\* Data::serialize_blocking_into: the bytes written to the writer
Data_serialize_blocking_into(d) ==
    IF d.tag = "Object" THEN ProverSolution_to_bytes_le(d.x) ELSE d.bytes

\* Data::deserialize_blocking
Data_deserialize_blocking(d) ==
    IF d.tag = "Object" THEN Ok(d.x) ELSE ProverSolution_from_bytes_le(d.bytes)

\* a closure handed to task::spawn_blocking, and what it returns when run
Closure(f, arg) == [f |-> f, arg |-> arg]
run_closure(c) ==
    IF c.f = "from_bytes_le" THEN ProverSolution_from_bytes_le(c.arg)
    ELSE Ok(ProverSolution_to_bytes_le(c.arg))

\* the bug of sending an object that needs no conversion through the pool
Data_deserialize_spawned_always(d) ==
    IF d.tag = "Object" THEN <<Closure("to_bytes_le", d.x)>>
    ELSE <<Closure("from_bytes_le", d.bytes)>>

\* the closures Data::deserialize hands to task::spawn_blocking:
\* Self::Object(x) => Ok(x), Self::Buffer(bytes) => spawn_blocking(..)
Data_deserialize_spawned(d) ==
    IF d.tag = "Object" THEN <<>> ELSE <<Closure("from_bytes_le", d.bytes)>>

\* the closures Data::serialize hands to task::spawn_blocking:
\* Self::Object(x) => spawn_blocking(..), Self::Buffer(bytes) => Ok(bytes)
Data_serialize_spawned(d) ==
    IF d.tag = "Object" THEN <<Closure("to_bytes_le", d.x)>> ELSE <<>>

\* the bug of handing on the JoinHandle's output as it is
join_result_nested(joined) == joined

\* match task::spawn_blocking(..).await { Ok(x) => x, Err(err) => Err(err.into()) }
join_result(joined) ==
    IF joined.kind = "Ok" THEN joined.val ELSE Err("JoinError")

(***************************************************************************)
(* PoolMessageSC: server to client                                         *)
(***************************************************************************)
ConnectAck(is_accept, address, id, signature) ==
    [type |-> "ConnectAck", is_accept |-> is_accept, address |-> address,
     id |-> id, signature |-> signature]
Notify(job_id, target, epoch_challenge) ==
    [type |-> "Notify", job_id |-> job_id, target |-> target,
     epoch_challenge |-> epoch_challenge]
ShutDown == [type |-> "ShutDown"]
Pong == [type |-> "Pong"]
UnusedSC == [type |-> "Unused"]

PoolMessageSC_id(m) ==
    CASE m.type = "ConnectAck" -> 0
      [] m.type = "Notify" -> 1
      [] m.type = "ShutDown" -> 2
      [] m.type = "Pong" -> 3
      [] m.type = "Unused" -> 127

\* the outcome of a write into a BytesMut writer: whether the call returned
\* Ok, and the bytes it wrote before it returned
Written(b) == [ok |-> TRUE, out |-> b]
Failed(b) == [ok |-> FALSE, out |-> b]

PoolMessageSC_serialize_data_into(m) ==
    CASE m.type = "ConnectAck" ->
            IF m.is_accept
            THEN IF m.id # None /\ m.signature # None
                 THEN Written(<<1>> \o Address_to_bytes(m.address)
                              \o to_le_bytes(m.id[1], 4) \o m.signature[1])
                 ELSE Failed(<<>>)
            ELSE Written(<<0>> \o Address_to_bytes(m.address))
      [] m.type = "Notify" ->
            Written(to_le_bytes(m.job_id, 8) \o to_le_bytes(m.target, 8)
                    \o EpochChallenge_to_bytes_le(m.epoch_challenge))
      [] m.type = "ShutDown" -> Written(<<>>)
      [] m.type = "Pong" -> Written(<<>>)
      [] m.type = "Unused" -> Written(<<>>)

PoolMessageSC_serialize_into(m) ==
    LET data == PoolMessageSC_serialize_data_into(m) IN
    [ok |-> data.ok, out |-> <<PoolMessageSC_id(m)>> \o data.out]

\* the bug of falling back to the Default variant on an unknown id
PoolMessageSC_unknown_id_default(id) == Ok(UnusedSC)

\* `_ => return Err(anyhow!("Invalid message ID {}", id))`
PoolMessageSC_unknown_id(id) == Err("Invalid message ID")

\* the bug of a refusal that comes back with the id and signature filled in
refused_ack_with_defaults(address) == ConnectAck(FALSE, address, Some(0), Some(<<>>))

\* 0 => Self::ConnectAck(false, bincode::deserialize(&data[1..=32])?, None, None)
refused_ack(address) == ConnectAck(FALSE, address, None, None)

\* the bug of answering an empty body with the Default variant
PoolMessageSC_empty_buffer_default(buffer) == Ok(UnusedSC)

\* if buffer.is_empty() { return Err(anyhow!("Invalid message buffer")) }
PoolMessageSC_empty_buffer(buffer) == Err("Invalid message buffer")

PoolMessageSC_deserialize(buffer) ==
    IF buffer = <<>> THEN PoolMessageSC_empty_buffer(buffer)
    ELSE
    LET id == buffer[1]
        data == Tail(buffer)
    IN  CASE id = 0 ->
               IF data = <<>> THEN Err("Invalid message buffer")
               ELSE IF data[1] \notin {0, 1} THEN Err("Invalid 'ConnectAck' message")
               ELSE IF Len(data) < 1 + ADDRESS_SIZE THEN Panic("data[1..=32]")
               ELSE LET address == Address_from_bytes(SubSeq(data, 2, 1 + ADDRESS_SIZE)) IN
                    IF address.kind = "Err" THEN Err("bincode")
                    ELSE IF data[1] = 0
                         THEN Ok(refused_ack(address.val))
                    ELSE IF Len(data) < 37 THEN Panic("data[33..36]")
                    ELSE IF ~from_utf8_ok(Drop(data, 37)) THEN Err("from_utf8")
                    ELSE Ok(ConnectAck(TRUE, address.val,
                                       Some(from_le_bytes(SubSeq(data, 34, 37))),
                                       Some(Drop(data, 37))))
          [] id = 1 ->
               IF Len(data) < 8 THEN Panic("data[0..8]")
               ELSE IF Len(data) < 16 THEN Panic("data[8..16]")
               ELSE LET epoch_challenge == EpochChallenge_read_le(Drop(data, 16)) IN
                    IF epoch_challenge.kind = "Err" THEN Err("read_le")
                    ELSE Ok(Notify(from_le_bytes(SubSeq(data, 1, 8)),
                                   from_le_bytes(SubSeq(data, 9, 16)),
                                   epoch_challenge.val))
          [] id = 2 -> IF data = <<>> THEN Ok(ShutDown) ELSE Err("Invalid 'ShutDown' message")
          [] id = 3 -> IF data = <<>> THEN Ok(Pong) ELSE Err("Invalid 'Pong' message")
          [] OTHER -> PoolMessageSC_unknown_id(id)

(***************************************************************************)
(* PoolMessageCS: client to server                                         *)
(***************************************************************************)
Connect(worker_type, address_type, v_major, v_minor, v_patch, custom_name, address) ==
    [type |-> "Connect", worker_type |-> worker_type, address_type |-> address_type,
     v_major |-> v_major, v_minor |-> v_minor, v_patch |-> v_patch,
     custom_name |-> custom_name, address |-> address]
Submit(worker_id, job_id, prover_solution) ==
    [type |-> "Submit", worker_id |-> worker_id, job_id |-> job_id,
     prover_solution |-> prover_solution]
DisConnect(id) == [type |-> "DisConnect", id |-> id]
Ping == [type |-> "Ping"]
UnusedCS == [type |-> "Unused"]

\* the bug of two ids exchanged
\* the bug of numbering the client's messages from 0, as the server's are
PoolMessageCS_id_from_zero(m) ==
    CASE m.type = "Connect" -> 0
      [] m.type = "Submit" -> 1
      [] m.type = "DisConnect" -> 2
      [] m.type = "Ping" -> 3
      [] m.type = "Unused" -> 127

PoolMessageCS_id_swapped(m) ==
    CASE m.type = "Connect" -> 128
      [] m.type = "Submit" -> 129
      [] m.type = "DisConnect" -> 131
      [] m.type = "Ping" -> 130
      [] m.type = "Unused" -> 255

PoolMessageCS_id(m) ==
    CASE m.type = "Connect" -> 128
      [] m.type = "Submit" -> 129
      [] m.type = "DisConnect" -> 130
      [] m.type = "Ping" -> 131
      [] m.type = "Unused" -> 255

PoolMessageCS_serialize_data_into(m) ==
    CASE m.type = "Connect" ->
            Written(<<m.worker_type, m.address_type, m.v_major, m.v_minor, m.v_patch>>
                    \o <<Len(m.custom_name) % U8_MODULUS>>
                    \o m.custom_name \o m.address)
      [] m.type = "Submit" ->
            Written(to_le_bytes(m.worker_id, 4) \o to_le_bytes(m.job_id, 8)
                    \o Data_serialize_blocking_into(m.prover_solution))
      [] m.type = "DisConnect" -> Written(to_le_bytes(m.id, 4))
      [] m.type = "Ping" -> Written(<<>>)
      [] m.type = "Unused" -> Written(<<>>)

PoolMessageCS_serialize_into(m) ==
    LET data == PoolMessageCS_serialize_data_into(m) IN
    [ok |-> data.ok, out |-> <<PoolMessageCS_id(m)>> \o data.out]

\* `_ => return Err(anyhow!("Invalid message ID {}", id))`
PoolMessageCS_unknown_id(id) == Err("Invalid message ID")

\* `(6 + data[5]) as usize` is u8 arithmetic: for data[5] >= 250 a build with
\* overflow checks panics at the addition, and a build without them wraps
\* name_end to 0..5, where data[6..name_end] panics (start after end).
\* the bug of materializing the payload while the frame is decoded
submit_payload_eager(bytes) ==
    IF ProverSolution_from_bytes_le(bytes).kind = "Ok"
    THEN Object(ProverSolution_from_bytes_le(bytes).val)
    ELSE Buffer(bytes)

\* Data::Buffer(data[12..].to_vec().into())
submit_payload(bytes) == Buffer(bytes)

PoolMessageCS_deserialize(buffer) ==
    IF buffer = <<>> THEN Err("Invalid message buffer")
    ELSE
    LET id == buffer[1]
        data == Tail(buffer)
    IN  CASE id = 128 ->
               IF Len(data) < 6 THEN Panic("data[5]")
               ELSE IF 6 + data[6] >= U8_MODULUS THEN Panic("6 + data[5]")
               ELSE LET name_end == 6 + data[6] IN
                    IF name_end > Len(data) THEN Panic("data[6..name_end]")
                    ELSE IF ~from_utf8_ok(SubSeq(data, 7, name_end)) THEN Err("from_utf8")
                    ELSE IF ~from_utf8_ok(Drop(data, name_end)) THEN Err("from_utf8")
                    ELSE Ok(Connect(data[1], data[2], data[3], data[4], data[5],
                                    SubSeq(data, 7, name_end), Drop(data, name_end)))
          [] id = 129 ->
               IF Len(data) < 4 THEN Panic("data[0..4]")
               ELSE IF Len(data) < 12 THEN Panic("data[4..12]")
               ELSE Ok(Submit(from_le_bytes(SubSeq(data, 1, 4)),
                              from_le_bytes(SubSeq(data, 5, 12)),
                              submit_payload(Drop(data, 12))))
          [] id = 130 ->
               IF Len(data) < 4 THEN Err("bincode")
               ELSE Ok(DisConnect(from_le_bytes(SubSeq(data, 1, 4))))
          [] id = 131 -> IF data = <<>> THEN Ok(Ping) ELSE Err("Invalid 'Ping' message")
          [] OTHER -> PoolMessageCS_unknown_id(id)

(***************************************************************************)
(* The framing codec.  encode works on the output buffer dst, decode on    *)
(* the input buffer source; both are given here as functions from the      *)
(* buffer before the call to the result and the buffer after it.           *)
(***************************************************************************)
\* the bug of a prefix that counts itself
len_slice_whole(dst) == to_le_bytes(Len(dst), 4)

\* let len_slice = (dst[4..].len() as u32).to_le_bytes()
len_slice(dst) == to_le_bytes(Len(dst) - 4, 4)

\* dst.extend_from_slice(&0u32.to_le_bytes()); message.serialize_into(..)?;
\* dst[..4].copy_from_slice(&len_slice)
PoolMessageSC_encode(message, dst) ==
    LET body == PoolMessageSC_serialize_into(message)
        dst1 == dst \o <<0, 0, 0, 0>> \o body.out
    IN  IF ~body.ok THEN [ok |-> FALSE, dst |-> dst1]
        ELSE [ok |-> TRUE, dst |-> len_slice(dst1) \o Drop(dst1, 4)]

PoolMessageCS_encode(message, dst) ==
    LET body == PoolMessageCS_serialize_into(message)
        dst1 == dst \o <<0, 0, 0, 0>> \o body.out
    IN  IF ~body.ok THEN [ok |-> FALSE, dst |-> dst1]
        ELSE [ok |-> TRUE, dst |-> len_slice(dst1) \o Drop(dst1, 4)]

\* results of decode: Ok(None), Ok(Some(message)), Err(io::Error), or a panic
NeedMore == [kind |-> "None", val |-> <<>>]
Frame(m) == [kind |-> "Some", val |-> m]
FramingError == [kind |-> "Err", val |-> "Frame is too large"]
DecodeError(e) == [kind |-> "Err", val |-> e]

\* the bug of rejecting a frame of exactly the maximum size
frame_too_large_ge(length) == length >= MAXIMUM_MESSAGE_SIZE

\* if length > MAXIMUM_MESSAGE_SIZE
frame_too_large(length) == length > MAXIMUM_MESSAGE_SIZE

\* the bug of waiting for one byte more than the frame has
frame_incomplete_le(source, length) == Len(source) <= 4 + length

\* if source.len() < 4 + length
frame_incomplete(source, length) == Len(source) < 4 + length

\* the bug of leaving the length prefix out of the advance
advance_body_only(source, length) == Drop(source, length)

\* source.advance(4 + length)
advance(source, length) == Drop(source, 4 + length)

\* the bug of reserving room for the body only
reserve_additional_body(source, length) == length - Len(source)

\* source.reserve(4 + length - source.len())
reserve_additional(source, length) == 4 + length - Len(source)

\* what a decode call leaves behind: its result, the contents of source, and
\* the number of further bytes it reserved room for in source (0: no reserve)
Returned(res, source, reserved) == [res |-> res, source |-> source, reserved |-> reserved]

\* the bug of returning the deserialize error before the advance (`?`)
PoolMessageSC_decode_early_return(source) ==
    IF Len(source) < 4 THEN Returned(NeedMore, source, 0)
    ELSE
    LET length == from_le_bytes(Take(source, 4)) IN
    IF frame_too_large(length) THEN Returned(FramingError, source, 0)
    ELSE IF frame_incomplete(source, length)
         THEN Returned(NeedMore, source, reserve_additional(source, length))
    ELSE LET message == PoolMessageSC_deserialize(SubSeq(source, 5, 4 + length)) IN
         CASE message.kind = "Panic" -> Returned(message, source, 0)
           [] message.kind = "Ok" ->
                Returned(Frame(message.val), advance(source, length), 0)
           [] message.kind = "Err" -> Returned(DecodeError(message.val), source, 0)

PoolMessageSC_decode(source) ==
    IF Len(source) < 4 THEN Returned(NeedMore, source, 0)
    ELSE
    LET length == from_le_bytes(Take(source, 4)) IN
    IF frame_too_large(length) THEN Returned(FramingError, source, 0)
    ELSE IF frame_incomplete(source, length)
         THEN Returned(NeedMore, source, reserve_additional(source, length))
    ELSE LET message == PoolMessageSC_deserialize(SubSeq(source, 5, 4 + length)) IN
         CASE message.kind = "Panic" -> Returned(message, source, 0)
           [] message.kind = "Ok" ->
                Returned(Frame(message.val), advance(source, length), 0)
           [] message.kind = "Err" ->
                Returned(DecodeError(message.val), advance(source, length), 0)

\* the bug of dropping the prefix of an oversized frame to read on behind it
PoolMessageCS_decode_skip_prefix(source) ==
    IF Len(source) < 4 THEN Returned(NeedMore, source, 0)
    ELSE
    LET length == from_le_bytes(Take(source, 4)) IN
    IF frame_too_large(length) THEN Returned(FramingError, Drop(source, 4), 0)
    ELSE IF frame_incomplete(source, length)
         THEN Returned(NeedMore, source, reserve_additional(source, length))
    ELSE LET message == PoolMessageCS_deserialize(SubSeq(source, 5, 4 + length)) IN
         CASE message.kind = "Panic" -> Returned(message, source, 0)
           [] message.kind = "Ok" ->
                Returned(Frame(message.val), advance(source, length), 0)
           [] message.kind = "Err" ->
                Returned(DecodeError(message.val), advance(source, length), 0)

PoolMessageCS_decode(source) ==
    IF Len(source) < 4 THEN Returned(NeedMore, source, 0)
    ELSE
    LET length == from_le_bytes(Take(source, 4)) IN
    IF frame_too_large(length) THEN Returned(FramingError, source, 0)
    ELSE IF frame_incomplete(source, length)
         THEN Returned(NeedMore, source, reserve_additional(source, length))
    ELSE LET message == PoolMessageCS_deserialize(SubSeq(source, 5, 4 + length)) IN
         CASE message.kind = "Panic" -> Returned(message, source, 0)
           [] message.kind = "Ok" ->
                Returned(Frame(message.val), advance(source, length), 0)
           [] message.kind = "Err" ->
                Returned(DecodeError(message.val), advance(source, length), 0)

(***************************************************************************)
(* Inputs                                                                  *)
(***************************************************************************)
Str_sig == <<115, 105, 103>>
Str_my == <<109, 121>>
Str_mail == <<97, 64, 98>>
Name250 == Rep(97, 250)
Name256 == Rep(97, 256)

\* a body behind its length prefix, as a peer would put it on the wire
RawFrame(body) == to_le_bytes(Len(body), 4) \o body

\* messages a multi-frame stream is built from
ShortSC == {Pong, ConnectAck(TRUE, 2, None, None), ConnectAck(FALSE, 1, None, None)}
ShortCS == {Ping, DisConnect(7)}
ShortRaw == {<<1, 2, 0, 0>>, RawFrame(<<2, 9>>), RawFrame(<<131>>)}

AllSC ==
    ShortSC \cup
    { ConnectAck(TRUE, 1, Some(1), Some(Str_sig)),
      ConnectAck(TRUE, 1, Some(3), None),
      ConnectAck(FALSE, 2, Some(7), Some(Str_my)),
      Notify(0, 100000, 1),
      ShutDown,
      UnusedSC }

AllCS ==
    ShortCS \cup
    { Connect(0, 1, 0, 1, 0, Str_my, Str_mail),
      Connect(1, 0, 2, 3, 4, <<>>, <<>>),
      Connect(0, 1, 0, 1, 0, Name250, Str_mail),
      Connect(0, 1, 0, 1, 0, Name256, Str_mail),
      Submit(0, 0, Object(1)),
      Submit(3, 70000, Buffer(<<1, 2>>)),
      Submit(1, 1, Buffer(Rep(0, MAXIMUM_MESSAGE_SIZE - 13))),
      Submit(1, 1, Buffer(Rep(0, MAXIMUM_MESSAGE_SIZE - 12))),
      UnusedCS }

\* payloads a caller builds: both objects, the bytes of one, bytes of none
DataInputs ==
    { Object(1), Object(2),
      Buffer(ProverSolution_to_bytes_le(1)),
      Buffer(<<1, 2>>),
      Buffer(<<>>) }

AllRaw ==
    ShortRaw \cup
    { <<1, 2, 0, 0, 3>>,                      \* declares 513, one body byte there
      <<255, 255, 255, 127>>,                 \* declares 2^31 - 1
      <<0, 0, 0, 0>>,                         \* declares an empty body
      RawFrame(<<4>>), RawFrame(<<200>>), RawFrame(<<132, 0>>),
      RawFrame(<<0, 0>>),                     \* ConnectAck cut before the address
      RawFrame(<<0, 5>>),                     \* ConnectAck, discriminant 5
      RawFrame(<<0, 0>> \o Rep(255, ADDRESS_SIZE)),
      RawFrame(<<0, 1>> \o Address_to_bytes(1) \o <<1, 0>>),
      RawFrame(<<0, 1>> \o Address_to_bytes(1) \o <<1, 0, 0, 0, 255>>),
      RawFrame(<<1, 0, 0, 0>>),               \* Notify cut in job_id
      RawFrame(<<1>> \o Rep(0, 16) \o <<1, 0>>),
      RawFrame(<<1>> \o Rep(0, 16) \o EpochChallenge_to_bytes_le(2) \o <<9>>),
      RawFrame(<<3, 9>>),
      RawFrame(<<128>>), RawFrame(<<128, 0, 0, 0, 0, 0, 9>>),
      RawFrame(<<128, 0, 0, 0, 0, 0, 250>>),
      RawFrame(<<128, 0, 0, 0, 0, 0, 1, 255>>),
      RawFrame(<<129>>), RawFrame(<<129, 1, 0, 0, 0, 0>>),
      RawFrame(<<130, 7, 0>>), RawFrame(<<130, 7, 0, 0, 0, 9>>),
      RawFrame(<<131, 0>>) }

(***************************************************************************)
(* State                                                                   *)
(***************************************************************************)
VARIABLES
    codec,      \* "SC" or "CS": the message type whose Decoder reads the stream
    dst,        \* the BytesMut the encoders write into
    dstMsgs,    \* the encode calls made on dst since it was last taken
    wire,       \* bytes on their way to the decoder
    source,     \* the BytesMut the decoder reads from
    chunks,     \* what was put on the wire, in order
    decLog,     \* what decode returned for each frame it took off the buffer
    nframes,    \* encode calls and injected chunks so far
    short,      \* all inputs so far come from the Short sets
    halted,     \* a panic unwound the task
    partial,    \* decode has answered Ok(None) on a buffer that was not empty
    call,       \* the async Data call the caller is suspended in, if any
    pool,       \* the tasks handed to the blocking pool and not yet joined
    last        \* the last operation: its input (of decode: the room it
                \* reserved), the buffer before, the result

vars ==
    <<codec, dst, dstMsgs, wire, source, chunks, decLog, nframes, short, halted, partial,
      call, pool, last>>

\* the codec's side of the state, which no Data operation touches
streamVars ==
    <<codec, dst, dstMsgs, wire, source, chunks, decLog, nframes, short, halted, partial>>

\* no async call is pending: the caller is not suspended at an .await
NoCall == [state |-> "none"]
Awaiting(op, d, spawned) ==
    [state |-> "awaiting", op |-> op, d |-> d, spawned |-> spawned]

Op(op, dir, arg, pre, res) == [op |-> op, dir |-> dir, arg |-> arg, pre |-> pre, res |-> res]
Idle == Op("idle", "", <<>>, <<>>, <<>>)

Init ==
    /\ codec \in {"SC", "CS"}
    /\ dst = <<>>
    /\ dstMsgs = <<>>
    /\ wire = <<>>
    /\ source = <<>>
    /\ chunks = <<>>
    /\ decLog = <<>>
    /\ nframes = 0
    /\ short = TRUE
    /\ halted = FALSE
    /\ partial = FALSE
    /\ call = NoCall
    /\ pool = <<>>
    /\ last = Idle

\* the first input is any of the inputs, a longer stream uses the short ones
MayAdd(isShort) == nframes = 0 \/ (nframes < MaxFrames /\ short /\ isShort)

serialize_into(dir, message) ==
    IF dir = "SC" THEN PoolMessageSC_serialize_into(message)
    ELSE PoolMessageCS_serialize_into(message)

deserialize(dir, buffer) ==
    IF dir = "SC" THEN PoolMessageSC_deserialize(buffer)
    ELSE PoolMessageCS_deserialize(buffer)

message_id(dir, message) ==
    IF dir = "SC" THEN PoolMessageSC_id(message) ELSE PoolMessageCS_id(message)

encode(dir, message, buf) ==
    IF dir = "SC" THEN PoolMessageSC_encode(message, buf)
    ELSE PoolMessageCS_encode(message, buf)

decode(dir, buf) ==
    IF dir = "SC" THEN PoolMessageSC_decode(buf) ELSE PoolMessageCS_decode(buf)

Encoded(dir, message, r) ==
    /\ dst' = r.dst
    /\ dstMsgs' = Append(dstMsgs, [dir |-> dir, msg |-> message, ok |-> r.ok])
    /\ nframes' = nframes + 1
    /\ last' = Op("encode", dir, message, dst, r)
    /\ UNCHANGED <<codec, wire, source, chunks, decLog, halted, partial, call, pool>>

\* PoolMessageSC::encode(message, dst)
EncodeSC ==
    \E message \in AllSC :
        /\ ~halted /\ call = NoCall
        /\ MayAdd(message \in ShortSC)
        /\ short' = (short /\ message \in ShortSC)
        /\ Encoded("SC", message, PoolMessageSC_encode(message, dst))

\* PoolMessageCS::encode(message, dst)
EncodeCS ==
    \E message \in AllCS :
        /\ ~halted /\ call = NoCall
        /\ MayAdd(message \in ShortCS)
        /\ short' = (short /\ message \in ShortCS)
        /\ Encoded("CS", message, PoolMessageCS_encode(message, dst))

\* the caller writes the output buffer to the socket and clears it
Send ==
    /\ ~halted /\ call = NoCall
    /\ dst # <<>>
    /\ wire' = wire \o dst
    /\ chunks' = Append(chunks, [bytes |-> dst, msgs |-> dstMsgs])
    /\ dst' = <<>>
    /\ dstMsgs' = <<>>
    /\ last' = Idle
    /\ UNCHANGED <<codec, source, decLog, nframes, short, halted, partial, call, pool>>

\* the peer writes bytes of its own making
Inject ==
    \E bytes \in AllRaw :
        /\ ~halted /\ call = NoCall
        /\ MayAdd(bytes \in ShortRaw)
        /\ short' = (short /\ bytes \in ShortRaw)
        /\ wire' = wire \o bytes
        /\ chunks' = Append(chunks, [bytes |-> bytes, msgs |-> <<>>])
        /\ nframes' = nframes + 1
        /\ last' = Idle
        /\ UNCHANGED <<codec, dst, dstMsgs, source, decLog, halted, partial, call, pool>>

\* a read from the socket appends the next k bytes to the decoder's buffer;
\* reads of one byte, of three bytes and of all there is reach every split
Deliver ==
    \E k \in {1, 3, Len(wire)} \cap (1..Len(wire)) :
        /\ ~halted /\ call = NoCall
        /\ source' = source \o Take(wire, k)
        /\ wire' = Drop(wire, k)
        /\ last' = Idle
        /\ UNCHANGED <<codec, dst, dstMsgs, chunks, decLog, nframes, short, halted, partial, call, pool>>

\* Decoder::decode(source) of the connection's message type
Decode ==
    /\ ~halted /\ call = NoCall
    /\ LET r == decode(codec, source) IN
        /\ source' = r.source
        /\ decLog' = IF r.source = source THEN decLog ELSE Append(decLog, r.res)
        /\ halted' = (r.res.kind = "Panic")
        /\ partial' = (partial \/ (r.res.kind = "None" /\ source # <<>>))
        /\ last' = Op("decode", codec, [reserved |-> r.reserved], source, r.res)
    /\ UNCHANGED <<codec, dst, dstMsgs, wire, chunks, nframes, short, call, pool>>

\* check_pool_message_sc / _cs: the decoded message is encoded into a fresh
\* buffer_2, to be compared with the buffer that was decoded
ReEncode ==
    /\ ~halted /\ call = NoCall
    /\ last.op = "decode"
    /\ last.res.kind = "Some"
    /\ last' = Op("reencode", codec, last.res.val, last.pre,
                  encode(codec, last.res.val, <<>>))
    /\ UNCHANGED <<codec, dst, dstMsgs, wire, source, chunks, decLog, nframes, short,
                   halted, partial, call, pool>>

\* the Data values the caller has at hand: the payload of the Submit message
\* decode has just returned, or, before any traffic, one it builds itself
DataArgs ==
    IF last.op = "decode" /\ last.res.kind = "Some" /\ last.res.val.type = "Submit"
    THEN {last.res.val.prover_solution}
    ELSE IF nframes = 0 THEN DataInputs ELSE {}

\* a finished Data operation: `pre` lists the closures the call handed to the
\* blocking pool
DataOp(op, d, spawned, res) == Op(op, "", d, spawned, res)

Queued(c) == [closure |-> c, state |-> "queued", out |-> <<>>]

\* Data::deserialize(self).await, up to its first suspension
DataDeserialize ==
    \E d \in DataArgs :
        /\ ~halted /\ call = NoCall
        /\ LET spawned == Data_deserialize_spawned(d) IN
           IF spawned = <<>>
           THEN /\ last' = DataOp("Data::deserialize", d, <<>>, Ok(d.x))
                /\ UNCHANGED <<call, pool>>
           ELSE /\ pool' = pool \o [i \in 1..Len(spawned) |-> Queued(spawned[i])]
                /\ call' = Awaiting("Data::deserialize", d, spawned)
                /\ UNCHANGED last
        /\ UNCHANGED streamVars

\* Data::serialize(self).await, up to its first suspension
DataSerialize ==
    \E d \in DataArgs :
        /\ ~halted /\ call = NoCall
        /\ LET spawned == Data_serialize_spawned(d) IN
           IF spawned = <<>>
           THEN /\ last' = DataOp("Data::serialize", d, <<>>, Ok(d.bytes))
                /\ UNCHANGED <<call, pool>>
           ELSE /\ pool' = pool \o [i \in 1..Len(spawned) |-> Queued(spawned[i])]
                /\ call' = Awaiting("Data::serialize", d, spawned)
                /\ UNCHANGED last
        /\ UNCHANGED streamVars

\* a thread of the blocking pool runs the closure of a queued task
BlockingPoolRun ==
    \E i \in 1..Len(pool) :
        /\ pool[i].state = "queued"
        /\ pool' = [pool EXCEPT ![i] = [closure |-> pool[i].closure,
                                        state |-> "finished",
                                        out |-> Ok(run_closure(pool[i].closure))]]
        /\ UNCHANGED <<streamVars, call, last>>

\* the JoinHandle of the awaited task is ready and the async call returns
DataJoin ==
    /\ call # NoCall
    /\ pool # <<>>
    /\ pool[1].state = "finished"
    /\ last' = DataOp(call.op, call.d, call.spawned, join_result(pool[1].out))
    /\ pool' = Tail(pool)
    /\ call' = NoCall
    /\ UNCHANGED streamVars

\* Data::deserialize_blocking(self)
DataDeserializeBlocking ==
    \E d \in DataArgs :
        /\ ~halted /\ call = NoCall
        /\ last' = DataOp("Data::deserialize_blocking", d, <<>>, Data_deserialize_blocking(d))
        /\ UNCHANGED <<streamVars, call, pool>>

\* Data::serialize_blocking_into(&self, writer) on an empty writer
DataSerializeBlockingInto ==
    \E d \in DataArgs :
        /\ ~halted /\ call = NoCall
        /\ last' = DataOp("Data::serialize_blocking_into", d, <<>>,
                          Ok(Data_serialize_blocking_into(d)))
        /\ UNCHANGED <<streamVars, call, pool>>

Next ==
    \/ EncodeSC \/ EncodeCS \/ Send \/ Inject \/ Deliver \/ Decode \/ ReEncode
    \/ DataDeserialize \/ DataSerialize \/ BlockingPoolRun \/ DataJoin
    \/ DataDeserializeBlocking \/ DataSerializeBlockingInto

Spec == Init /\ [][Next]_vars

(***************************************************************************)
(* Reading the history                                                     *)
(***************************************************************************)
RECURSIVE Concat(_)
Concat(cs) == IF cs = <<>> THEN <<>> ELSE Head(cs).bytes \o Concat(Tail(cs))

\* all bytes put on the wire so far
Stream == Concat(chunks)

\* the bytes of the first k chunks
RECURSIVE Offset(_)
Offset(k) == IF k = 0 THEN 0 ELSE Offset(k - 1) + Len(chunks[k].bytes)

\* the u32 in the first four bytes of a buffer of at least four bytes
Declared(buf) == from_le_bytes(Take(buf, 4))

\* buf starts with a whole frame that passes the size check
CompleteFrame(buf) ==
    /\ Len(buf) >= 4
    /\ Declared(buf) <= 512
    /\ Len(buf) >= 4 + Declared(buf)

\* bytes is one frame whose body is a message of direction dir
ValidFrame(dir, bytes) ==
    /\ CompleteFrame(bytes)
    /\ Len(bytes) = 4 + Declared(bytes)
    /\ deserialize(dir, Drop(bytes, 4)).kind = "Ok"

FrameMessage(dir, bytes) == deserialize(dir, Drop(bytes, 4)).val

AllValid == \A i \in 1..Len(chunks) : ValidFrame(codec, chunks[i].bytes)

\* the stream is one buffer holding what one encode call of the decoder's own
\* message type wrote into an empty buffer (check_pool_message_sc / _cs)
Tested ==
    /\ Len(chunks) = 1
    /\ Len(chunks[1].msgs) = 1
    /\ chunks[1].msgs[1].dir = codec

TestedMsg == chunks[1].msgs[1].msg

SameData(a, b) == Data_serialize_blocking_into(a) = Data_serialize_blocking_into(b)

\* equal field by field, a Submit payload by the bytes it denotes
SameMessage(a, b) ==
    IF a.type # b.type THEN FALSE
    ELSE IF a.type = "Submit"
         THEN /\ a.worker_id = b.worker_id
              /\ a.job_id = b.job_id
              /\ SameData(a.prover_solution, b.prover_solution)
         ELSE a = b

KnownIds(dir) == IF dir = "SC" THEN {0, 1, 2, 3} ELSE {128, 129, 130, 131}

(***************************************************************************)
(* Claims                                                                  *)
(***************************************************************************)

\* C1: a message of a variant other than Unused, encoded into an empty buffer,
\* decodes to a message (no error, no Ok(None)), and that message encodes
\* into a second empty buffer to the same bytes.
C1_ReencodeIdentical ==
    (Tested /\ TestedMsg.type # "Unused" /\ last.pre = chunks[1].bytes) =>
        /\ last.op = "decode" => last.res.kind = "Some"
        /\ last.op = "reencode" => (last.res.ok /\ last.res.dst = chunks[1].bytes)

\* C2: deserialize(serialize(m)) is a message equal to m field by field, for
\* every variant of both enums and all field values.
C2_RoundTrip ==
    last.op = "encode" =>
        LET r == deserialize(last.dir, serialize_into(last.dir, last.arg).out) IN
        r.kind = "Ok" /\ SameMessage(r.val, last.arg)

\* C3: on a stream of valid frames, a decode call made before the last byte
\* of the frame at the front of the buffer has arrived returns Ok(None), and
\* the call made once it is there returns the message that frame decodes to
\* on its own, and takes exactly that frame off the buffer.
C3_PartialFrame ==
    (last.op = "decode" /\ AllValid) =>
        \E k \in 1..(Len(chunks) + 1) :
            /\ Offset(k - 1) = Len(Stream) - Len(wire) - Len(last.pre)
            /\ IF k > Len(chunks) \/ Len(last.pre) < Len(chunks[k].bytes)
               THEN last.res = NeedMore /\ source = last.pre
               ELSE /\ last.res = Frame(FrameMessage(codec, chunks[k].bytes))
                    /\ source = Drop(last.pre, Len(chunks[k].bytes))

\* a frame that arrived in pieces: Ok(None) first, then the message
C3_Witness ==
    /\ partial
    /\ AllValid
    /\ Len(chunks) = 1
    /\ last.op = "decode"
    /\ last.pre = chunks[1].bytes
    /\ last.res.kind = "Some"
    /\ source = <<>>

\* C4: with four or more bytes in the buffer, a declared length above 512 is
\* answered with the framing error whatever has arrived of the body, and a
\* declared length of exactly 512 is not.
C4_OversizedRejected ==
    (last.op = "decode" /\ Len(last.pre) >= 4) =>
        /\ Declared(last.pre) > 512 => (last.res = FramingError /\ ~halted)
        /\ Declared(last.pre) = 512 => last.res # FramingError

\* the framing error with less than the declared body in the buffer
C4_Witness ==
    /\ last.op = "decode"
    /\ Len(last.pre) >= 4
    /\ Declared(last.pre) > 512
    /\ Len(last.pre) - 4 < Declared(last.pre)
    /\ last.res = FramingError

\* C5: a complete frame whose first body byte is no known id of the decoder's
\* direction is answered with a decode error, never with a message.
C5_UnknownIdRejected ==
    (/\ last.op = "decode"
     /\ CompleteFrame(last.pre)
     /\ Declared(last.pre) >= 1
     /\ last.pre[5] \notin KnownIds(codec)) =>
        /\ last.res.kind = "Err"
        /\ last.res # FramingError

\* the ids of the Unused variants, met by a decoder
C5_Witness ==
    /\ last.op = "decode"
    /\ CompleteFrame(last.pre)
    /\ Declared(last.pre) >= 1
    /\ last.pre[5] \in {127, 255}
    /\ last.res.kind = "Err"

EncodedDisConnect7 ==
    /\ last.op = "encode"
    /\ last.dir = "CS"
    /\ last.arg.type = "DisConnect"
    /\ last.arg.id = 7
    /\ last.pre = <<>>

\* C6, as amended: DisConnect(7) encodes into an empty buffer to a frame with
\* length prefix 5, id byte 130 and the bytes 7,0,0,0 after it.
C6_DisConnectBytes ==
    EncodedDisConnect7 =>
        /\ last.res.ok
        /\ Take(dst, 4) = <<5, 0, 0, 0>>
        /\ dst[5] = 130
        /\ Drop(dst, 5) = <<7, 0, 0, 0>>

\* C6, as stated: the length prefix is 4.
C6_Original ==
    EncodedDisConnect7 =>
        /\ last.res.ok
        /\ Take(dst, 4) = <<4, 0, 0, 0>>
        /\ dst[5] = 130
        /\ Drop(dst, 5) = <<7, 0, 0, 0>>

C6_Witness == EncodedDisConnect7 /\ last.res.ok /\ Len(dst) = 9

\* C7: on a stream of valid frames the decoder returns the frames' messages
\* in the order of the frames, each from its own frame's bytes, none skipped
\* or repeated; what is left in the buffer and on the wire is exactly the
\* frames not yet returned, and on an empty buffer decode returns Ok(None).
C7_InOrder ==
    AllValid =>
        /\ Len(decLog) <= Len(chunks)
        /\ \A i \in 1..Len(decLog) :
               decLog[i] = Frame(FrameMessage(codec, chunks[i].bytes))
        /\ source \o wire = Concat(SubSeq(chunks, Len(decLog) + 1, Len(chunks)))
        /\ (last.op = "decode" /\ last.pre = <<>>) => last.res = NeedMore

\* two whole frames in the buffer at once, the first one taken
C7_Witness ==
    /\ AllValid
    /\ Len(chunks) = 2
    /\ chunks[1].bytes # chunks[2].bytes
    /\ last.op = "decode"
    /\ last.pre = chunks[1].bytes \o chunks[2].bytes
    /\ last.res.kind = "Some"
    /\ source = chunks[2].bytes

\* C8: decode returns a message or an error on every complete frame and
\* never panics.
C8_NoPanic ==
    (last.op = "decode" /\ CompleteFrame(last.pre)) => last.res.kind \in {"Some", "Err"}

\* C9: encoding an accepting ConnectAck without id or signature fails and
\* leaves the output buffer as it was before the call.
C9_FailedEncodeLeavesBuffer ==
    (/\ last.op = "encode"
     /\ last.dir = "SC"
     /\ last.arg.type = "ConnectAck"
     /\ last.arg.is_accept
     /\ (last.arg.id = None \/ last.arg.signature = None)) =>
        /\ ~last.res.ok
        /\ dst = last.pre

\* C10: after a successful encode into an empty buffer the buffer is one
\* frame: the prefix is the byte count of what follows it, which is the
\* serialized message, and the first byte after the prefix is the id.
C10_FramePrefix ==
    (last.op = "encode" /\ last.res.ok /\ last.pre = <<>>) =>
        /\ Len(dst) >= 5
        /\ Declared(dst) = Len(dst) - 4
        /\ Drop(dst, 4) = serialize_into(last.dir, last.arg).out
        /\ dst[5] = message_id(last.dir, last.arg)

\* a frame with fields behind the id
C10_Witness ==
    /\ last.op = "encode"
    /\ last.res.ok
    /\ last.pre = <<>>
    /\ Len(dst) > 5
    /\ Declared(dst) = Len(dst) - 4

C12_DeserializeAgree ==
    last.op = "Data::deserialize"
    => /\ last.res = Data_deserialize_blocking(last.arg)
       /\ (last.arg.tag = "Object" => last.res = Ok(last.arg.x))
       /\ (last.arg.tag = "Buffer" =>
              IF \E x \in ProverSolutions : ProverSolution_to_bytes_le(x) = last.arg.bytes
              THEN /\ last.res.kind = "Ok"
                   /\ ProverSolution_to_bytes_le(last.res.val) = last.arg.bytes
              ELSE last.res.kind = "Err")

C12_Witness ==
    /\ last.op = "Data::deserialize"
    /\ last.arg = Buffer(ProverSolution_to_bytes_le(1))
    /\ last.pre = <<Closure("from_bytes_le", ProverSolution_to_bytes_le(1))>>
    /\ last.res = Ok(1)
    /\ pool = <<>>

\* C13: Data::serialize and Data::serialize_blocking_into emit the bytes of a
\* Buffer as they are, so that Buffer(bytes of v) and Object(v) serialize to
\* the same bytes, and a Submit message decoded and encoded again carries the
\* payload bytes of the original.
C13_BufferPassthrough ==
    /\ last.op \in {"Data::serialize", "Data::serialize_blocking_into"}
       => /\ (last.arg.tag = "Buffer" => last.res = Ok(last.arg.bytes))
          /\ (last.arg.tag = "Object" =>
                 /\ last.res = Ok(ProverSolution_to_bytes_le(last.arg.x))
                 /\ last.res = Ok(Data_serialize_blocking_into(
                                     Buffer(ProverSolution_to_bytes_le(last.arg.x)))))
    /\ (/\ last.op = "reencode"
        /\ Tested
        /\ last.pre = chunks[1].bytes
        /\ TestedMsg.type = "Submit")
       => /\ last.arg.type = "Submit"
          /\ last.arg.prover_solution.tag = "Buffer"
          /\ last.res.ok
          /\ Drop(last.res.dst, 4 + 1 + 12) = last.arg.prover_solution.bytes
          /\ Drop(last.res.dst, 4 + 1 + 12) = Drop(chunks[1].bytes, 4 + 1 + 12)
          /\ (TestedMsg.prover_solution.tag = "Buffer"
                => Drop(last.res.dst, 4 + 1 + 12) = TestedMsg.prover_solution.bytes)
          /\ (TestedMsg.prover_solution.tag = "Object"
                => Drop(last.res.dst, 4 + 1 + 12)
                     = ProverSolution_to_bytes_le(TestedMsg.prover_solution.x))

C13_Witness ==
    /\ last.op = "Data::serialize"
    /\ last.arg = Buffer(ProverSolution_to_bytes_le(1))
    /\ last.res = Ok(ProverSolution_to_bytes_le(1))
    /\ last.pre = <<>>
    /\ Tested
    /\ TestedMsg = Submit(0, 0, Object(1))

\* C14: after any sequence of successful encode calls on one buffer that was
\* not drained in between, the buffer is the concatenation, in call order, of
\* the frames of the messages, each frame being the 4-byte little-endian
\* length of the message's own body followed by that body; so each call
\* appends one frame and leaves the bytes before it as they were.
RECURSIVE OwnFrames(_)
OwnFrames(calls) ==
    IF calls = <<>> THEN <<>>
    ELSE RawFrame(serialize_into(Head(calls).dir, Head(calls).msg).out)
         \o OwnFrames(Tail(calls))

C15_NeedMoreLeavesBuffer ==
    last.op = "decode"
    => LET short4 == Len(last.pre) < 4
           waiting == /\ Len(last.pre) >= 4
                      /\ Declared(last.pre) <= MAXIMUM_MESSAGE_SIZE
                      /\ Len(last.pre) - 4 < Declared(last.pre)
       IN  /\ (last.res = NeedMore) = (short4 \/ waiting)
           /\ last.res = NeedMore
              => /\ source = last.pre
                 /\ short4 => last.arg.reserved = 0
                 /\ waiting => /\ last.arg.reserved = 4 + Declared(last.pre) - Len(last.pre)
                                /\ last.arg.reserved > 0
           /\ last.res # NeedMore => last.arg.reserved = 0

C15_Witness ==
    /\ last.op = "decode"
    /\ last.res = NeedMore
    /\ Len(last.pre) = 7
    /\ Declared(last.pre) = MAXIMUM_MESSAGE_SIZE
    /\ last.arg.reserved = MAXIMUM_MESSAGE_SIZE - 3
    /\ source = last.pre

\* C16: when the buffer starts with a whole frame of a declared length of at
\* most 512 whose body deserialize rejects with an error, decode returns that
\* error and takes exactly the frame's 4 + length bytes off the front, the
\* bytes behind them unchanged; so on a stream of whole frames, rejected or
\* valid, every frame gets its own answer, and a valid frame behind a
\* rejected one is decoded to its message.
Answered(dir, bytes) ==
    /\ CompleteFrame(bytes)
    /\ Len(bytes) = 4 + Declared(bytes)
    /\ deserialize(dir, Drop(bytes, 4)).kind \in {"Ok", "Err"}

Answer(dir, bytes) ==
    LET message == deserialize(dir, Drop(bytes, 4)) IN
    IF message.kind = "Ok" THEN Frame(message.val) ELSE DecodeError(message.val)

C16_ErrorSkipsFrame ==
    /\ (/\ last.op = "decode"
        /\ CompleteFrame(last.pre)
        /\ deserialize(last.dir, SubSeq(last.pre, 5, 4 + Declared(last.pre))).kind = "Err")
       => /\ last.res.kind = "Err"
          /\ last.res # FramingError
          /\ last.res.val
               = deserialize(last.dir, SubSeq(last.pre, 5, 4 + Declared(last.pre))).val
          /\ Len(source) = Len(last.pre) - (4 + Declared(last.pre))
          /\ source = Drop(last.pre, 4 + Declared(last.pre))
    /\ (\A i \in 1..Len(chunks) : Answered(codec, chunks[i].bytes))
       => /\ Len(decLog) <= Len(chunks)
          /\ \A i \in 1..Len(decLog) : decLog[i] = Answer(codec, chunks[i].bytes)
          /\ source \o wire = Concat(SubSeq(chunks, Len(decLog) + 1, Len(chunks)))

\* a rejected frame and a valid one in the buffer at once, both answered
C16_Witness ==
    /\ Len(chunks) = 2
    /\ Answered(codec, chunks[1].bytes)
    /\ ~ValidFrame(codec, chunks[1].bytes)
    /\ ValidFrame(codec, chunks[2].bytes)
    /\ Len(decLog) = 2
    /\ decLog[1].kind = "Err"
    /\ last.op = "decode"
    /\ last.pre = chunks[2].bytes
    /\ last.res = Frame(FrameMessage(codec, chunks[2].bytes))
    /\ partial = FALSE

\* C17: a decode call that fails because the declared length exceeds 512
\* leaves the buffer as it was; from then on the buffer keeps its bytes,
\* whatever is appended behind them, every decode call on it returns the
\* same framing error, and no frame is taken off it any more.
Oversized(buf) == Len(buf) >= 4 /\ Declared(buf) > MAXIMUM_MESSAGE_SIZE

C17_OversizedIsFinal ==
    [][ /\ (last'.op = "decode" /\ last'.res = FramingError)
           => /\ source' = last'.pre
              /\ Oversized(source')
        /\ Oversized(source)
           => /\ Oversized(source')
              /\ Take(source', Len(source)) = source
              /\ decLog' = decLog
              /\ (last' # last /\ last'.op = "decode") => last'.res = FramingError ]_vars

\* the framing error again, with a valid frame appended behind the prefix
C17_Witness ==
    /\ Len(chunks) = 2
    /\ chunks[1].bytes = <<1, 2, 0, 0>>
    /\ ValidFrame(codec, chunks[2].bytes)
    /\ wire = <<>>
    /\ last.op = "decode"
    /\ last.pre = Stream
    /\ last.res = FramingError
    /\ source = Stream
    /\ decLog = <<>>

\* C18: decode does not materialize the payload of a Submit frame: on a whole
\* frame within the size limit whose body is the id 129 and at least 12
\* further bytes, decode returns Submit(worker_id, job_id, Data::Buffer(b))
\* with worker_id read from the first 4 of them, job_id from the next 8 and b
\* the bytes behind them, whatever these are; that b denotes no object shows
\* only as the error of a later Data::deserialize or deserialize_blocking.
C18_SubmitPayloadDeferred ==
    /\ (/\ last.op = "decode"
        /\ last.dir = "CS"
        /\ CompleteFrame(last.pre)
        /\ Declared(last.pre) >= 1 + 12
        /\ last.pre[5] = 129)
       => /\ last.res = Frame(Submit(from_le_bytes(SubSeq(last.pre, 6, 9)),
                                     from_le_bytes(SubSeq(last.pre, 10, 17)),
                                     Buffer(SubSeq(last.pre, 18, 4 + Declared(last.pre)))))
          /\ source = Drop(last.pre, 4 + Declared(last.pre))
    /\ (/\ last.op \in {"Data::deserialize", "Data::deserialize_blocking"}
        /\ last.arg.tag = "Buffer"
        /\ \A x \in ProverSolutions : ProverSolution_to_bytes_le(x) # last.arg.bytes)
       => last.res.kind = "Err"

\* a Submit whose payload is the bytes of no object: decoded, then refused
\* by the deserialization of its payload
C18_Witness ==
    /\ Tested
    /\ TestedMsg = Submit(3, 70000, Buffer(<<1, 2>>))
    /\ decLog = <<Frame(TestedMsg)>>
    /\ last.op = "Data::deserialize"
    /\ last.arg = Buffer(<<1, 2>>)
    /\ last.res.kind = "Err"

\* C19: for every Connect message the name-length byte of the encoded frame
\* is the number of bytes of custom_name, and decoding the frame returns a
\* Connect with the custom_name and the address of the original, whatever
\* the length of the name (250 bytes or more, more than 255 bytes).
C19_ConnectNameLength ==
    /\ (/\ last.op = "encode"
        /\ last.dir = "CS"
        /\ last.arg.type = "Connect"
        /\ last.pre = <<>>)
       => /\ last.res.ok
          /\ dst[4 + 1 + 5 + 1] = Len(last.arg.custom_name)
    /\ (/\ last.op = "decode"
        /\ Tested
        /\ last.pre = chunks[1].bytes
        /\ TestedMsg.type = "Connect")
       => /\ last.res.kind = "Some"
          /\ last.res.val.type = "Connect"
          /\ last.res.val.custom_name = TestedMsg.custom_name
          /\ last.res.val.address = TestedMsg.address

\* C20: a frame that declares the length 0 never yields a message: with its
\* 4 prefix bytes in the buffer decode returns the error of an empty body
\* and takes exactly these 4 bytes; and a frame whose declared length is the
\* number of bytes behind the prefix is answered by that call, with its
\* message if it is valid, never with Ok(None).
C20_ZeroAndExactLength ==
    last.op = "decode"
    => /\ (Len(last.pre) >= 4 /\ Declared(last.pre) = 0)
          => /\ last.res = DecodeError("Invalid message buffer")
             /\ source = Drop(last.pre, 4)
             /\ decLog[Len(decLog)] = last.res
       /\ (CompleteFrame(last.pre) /\ Len(last.pre) = 4 + Declared(last.pre))
          => /\ last.res # NeedMore
             /\ ValidFrame(last.dir, last.pre)
                => /\ last.res = Frame(FrameMessage(last.dir, last.pre))
                   /\ source = <<>>

\* the zero-length frame a peer sent, answered when its fourth byte is there
C20_Witness ==
    /\ last.op = "decode"
    /\ Len(chunks) = 1
    /\ chunks[1] = [bytes |-> <<0, 0, 0, 0>>, msgs |-> <<>>]
    /\ last.pre = <<0, 0, 0, 0>>
    /\ last.res = DecodeError("Invalid message buffer")
    /\ decLog = <<last.res>>
    /\ partial
    /\ source = <<>>

\* C21: the async Data operations hand work to the blocking pool on the
\* converting branch only: Data::serialize one task for Object(x) and none
\* for Buffer(b), Data::deserialize one task for Buffer(b) and none for
\* Object(x); a pass-through call returns without suspending the caller, and
\* no call hands over more than one task.
Converting(op, d) ==
    \/ op = "Data::serialize" /\ d.tag = "Object"
    \/ op = "Data::deserialize" /\ d.tag = "Buffer"

C21_DispatchOnlyToConvert ==
    /\ Len(pool) <= 1
    /\ (call = NoCall) = (pool = <<>>)
    /\ call # NoCall
       => /\ Converting(call.op, call.d)
          /\ Len(call.spawned) = 1
          /\ pool[1].closure = call.spawned[1]
    /\ last.op \in {"Data::serialize", "Data::deserialize"}
       => /\ Len(last.pre) <= 1
          /\ (last.pre # <<>>) = Converting(last.op, last.arg)
          /\ (last.op = "Data::serialize" /\ last.arg.tag = "Object")
             => last.pre = <<Closure("to_bytes_le", last.arg.x)>>
          /\ (last.op = "Data::deserialize" /\ last.arg.tag = "Buffer")
             => last.pre = <<Closure("from_bytes_le", last.arg.bytes)>>

\* an object serialized through the pool: one task, joined
C21_Witness ==
    /\ last.op = "Data::serialize"
    /\ last.arg = Object(1)
    /\ last.pre = <<Closure("to_bytes_le", 1)>>
    /\ last.res = Ok(ProverSolution_to_bytes_le(1))
    /\ call = NoCall
    /\ pool = <<>>

\* C22: no message id of one direction is an id of the other (0, 1, 2, 3, 127
\* against 128, 129, 130, 131, 255), so the frame one direction's encoder
\* wrote is not a message to the other direction's decoder: decoding it
\* returns an error, never a message.
WrongDirection(chunk) ==
    /\ Len(chunk.msgs) = 1
    /\ chunk.msgs[1].ok
    /\ chunk.msgs[1].dir # codec

C22_WrongDirectionRejected ==
    /\ {PoolMessageSC_id(m) : m \in AllSC} \cap {PoolMessageCS_id(m) : m \in AllCS} = {}
    /\ (/\ last.op = "decode"
        /\ Len(chunks) >= 1
        /\ WrongDirection(chunks[1])
        /\ last.pre = chunks[1].bytes)
       => /\ message_id(chunks[1].msgs[1].dir, chunks[1].msgs[1].msg) = last.pre[5]
          /\ last.pre[5] \notin KnownIds(codec)
          /\ last.res.kind = "Err"
          /\ Declared(last.pre) <= MAXIMUM_MESSAGE_SIZE
             => /\ last.res = DecodeError("Invalid message ID")
                /\ source = <<>>
    /\ (\A i \in 1..Len(chunks) : WrongDirection(chunks[i]))
       => \A j \in 1..Len(decLog) : decLog[j].kind = "Err"

\* the client's Ping, read by the decoder of the server's messages
C22_Witness ==
    /\ codec = "SC"
    /\ Len(chunks) = 1
    /\ chunks[1] = [bytes |-> <<1, 0, 0, 0, 131>>,
                    msgs |-> <<[dir |-> "CS", msg |-> Ping, ok |-> TRUE]>>]
    /\ last.op = "decode"
    /\ last.pre = chunks[1].bytes
    /\ last.res = DecodeError("Invalid message ID")
    /\ decLog = <<last.res>>
    /\ source = <<>>

====
